---- MODULE Spec2Model ----
(***************************************************************************)
(* Model of FTLPack (src/src/main.py): the .dat container engine.          *)
(* The file is a sequence of bytes; every struct.pack / seek / write /     *)
(* read / truncate of the code is modelled on those bytes.  Slot numbers   *)
(* are 0-based as in the code; TLA+ sequences are 1-based, so slot n of    *)
(* the Python list self.index is index[n+1] here, and file offset p is     *)
(* f[p+1].                                                                 *)
(***************************************************************************)
EXTENDS Integers, Sequences, FiniteSets, TLC

VARIABLES
    f,          \* self.f: the bytes of the file
    index,      \* self.index: [ idx: offset ]
    index_free, \* self.index_free: stack of free idx
    metadata,   \* self.metadata: [ idx: (filename, size, offset) ]
    filenames,  \* self.filenames: { filename: idx }
    eof,        \* self.eof
    pc,         \* position of the caller: "idle", inside add's _grow_index, ...
    pend,       \* the arguments of the add call that is inside _grow_index
    result,     \* what the last call returned or raised
    sink,       \* what the last call wrote to the file object it was given
    source,     \* the file object the last add was given, as add left it
    written,    \* the file offsets the last call wrote (self.f.write)
    added       \* filename -> the bytes supplied to its successful add

vars == <<f, index, index_free, metadata, filenames, eof, pc, pend, result,
          sink, source, written, added>>

(***************************************************************************)
(* Bounds of the model.                                                    *)
(***************************************************************************)
MaxCap == 2     \* create(index_size) with index_size in 0..MaxCap
MaxEof == 44    \* no add is issued that could push self.eof beyond this
MaxData == 1    \* sources hold up to MaxData bytes

\* f.read(min(todo, 4096)) / self.f.read(min(4096, todo))
ChunkSize == 4096

Min(a, b) == IF a < b THEN a ELSE b
Max(a, b) == IF a > b THEN a ELSE b

\* The filenames used as inputs (byte strings of different lengths).
Names == { <<97>>, <<98, 99>> }

\* The readable byte sources handed to add: k bytes, all non-zero.
Source(k) == [i \in 1..k |-> 16 * k + i]
Sources == { Source(k) : k \in 0..MaxData }

(***************************************************************************)
(* struct.pack('<L', x) and struct.unpack('<L', b): little-endian u32.     *)
(***************************************************************************)
pack(x) ==
    << x % 256, (x \div 256) % 256, (x \div 65536) % 256,
       (x \div 16777216) % 256 >>

unpack(b) == b[1] + 256 * b[2] + 65536 * b[3] + 16777216 * b[4]

(***************************************************************************)
(* The file object: seek(pos, 0) followed by write(buf) or read(n).        *)
(* A write past the end fills the gap with zero bytes; writing the empty   *)
(* string changes nothing; a read stops at the end of the file.            *)
(***************************************************************************)
write(file, pos, buf) ==
    IF buf = << >> THEN file
    ELSE [i \in 1..Max(Len(file), pos + Len(buf)) |->
            IF i > pos /\ i <= pos + Len(buf) THEN buf[i - pos]
            ELSE IF i <= Len(file) THEN file[i]
            ELSE 0]

read(file, pos, n) == SubSeq(file, pos + 1, Min(pos + n, Len(file)))

\* self.f.truncate(size): cut, or extend with zero bytes.
truncate(file, size) ==
    [i \in 1..size |-> IF i <= Len(file) THEN file[i] ELSE 0]

\* the offsets touched by a write of n bytes at pos
span(pos, n) == pos..(pos + n - 1)

\* ftldat_entry(filename, size, offset); None is the empty slot of metadata
ftldat_entry(filename, size, offset) ==
    [filename |-> filename, size |-> size, offset |-> offset]

None == [filename |-> << >>, size |-> 0, offset |-> 0]

\* what a call returned or raised
Res(op, name, status, bytes_moved, old_size, new_size) ==
    [op |-> op, name |-> name, status |-> status, bytes_moved |-> bytes_moved,
     old_size |-> old_size, new_size |-> new_size]

NoArgs == [filename |-> << >>, src |-> << >>, size |-> 0]

\* no add was made, or add raised before it touched the file object
NoSource == [short |-> FALSE, pos |-> 0, reads |-> 0]

\* range(hi, lo, -1) of Python: hi, hi-1, ..., lo+1
range_down(hi, lo) == [i \in 1..Max(hi - lo, 0) |-> hi - i + 1]

\* {} of Python: the dictionary with no key
EmptyMap == [x \in {} |-> 0]

\* [0] * n
zeros(n) == [i \in 1..n |-> 0]
nones(n) == [i \in 1..n |-> None]

(***************************************************************************)
(* _create_index(index_size)                                               *)
(***************************************************************************)
create_index(index_size) ==
    /\ index = zeros(index_size)
    /\ index_free = range_down(index_size - 1, -1)
    /\ metadata = nones(index_size)
    /\ filenames = EmptyMap
    /\ eof = index_size * 4 + 4
    /\ f = pack(index_size) \o zeros(4 * index_size)

Init ==
    /\ \E index_size \in 0..MaxCap : create_index(index_size)
    /\ pc = "idle"
    /\ pend = NoArgs
    /\ result = Res("create", << >>, "ok", 0, 0, 0)
    /\ sink = << >>
    /\ source = NoSource
    /\ written = {}
    /\ added = EmptyMap

(***************************************************************************)
(* extract_to(filename, f): the bytes pumped to f and how the call ends.   *)
(***************************************************************************)
RECURSIVE pump(_, _, _, _)
pump(file, pos, todo, out) ==
    IF todo = 0 THEN [status |-> "ok", out |-> out]
    ELSE LET buf == read(file, pos, Min(todo, ChunkSize)) IN
         IF buf = << >> THEN [status |-> "AssertionError", out |-> out]
         ELSE pump(file, pos + Len(buf), todo - Len(buf), out \o buf)

extract(filename) ==
    IF filename \notin DOMAIN filenames
    THEN [status |-> "KeyError", out |-> << >>]
    ELSE LET n == filenames[filename] IN
         pump(f, metadata[n + 1].offset, metadata[n + 1].size, << >>)

extract_to(filename) ==
    /\ pc = "idle"
    /\ sink' = extract(filename).out
    /\ source' = NoSource
    /\ result' = Res("extract_to", filename, extract(filename).status, 0, 0, 0)
    /\ written' = {}
    /\ UNCHANGED <<f, index, index_free, metadata, filenames, eof, pc, pend,
                   added>>

(***************************************************************************)
(* add(filename, f, size), from "n = self.index_free.pop()" on.            *)
(***************************************************************************)
\* the loop that writes the data: f.read(min(todo, 4096)) until todo is 0
\* the copy loop of add as a do-while loop: it reads before it looks at todo
RECURSIVE feed_reads_first(_, _, _, _, _, _)
feed_reads_first(file, pos, src, spos, todo, reads) ==
    LET buf == read(src, spos, Min(todo, ChunkSize)) IN
    IF todo = 0
    THEN [status |-> "ok", file |-> file, end |-> pos, spos |-> spos,
          reads |-> reads + 1]
    ELSE IF buf = << >>
    THEN [status |-> "ShortRead", file |-> file, end |-> pos,
          spos |-> spos, reads |-> reads + 1]
    ELSE feed_reads_first(write(file, pos, buf), pos + Len(buf), src,
                          spos + Len(buf), todo - Len(buf), reads)

RECURSIVE feed(_, _, _, _, _, _)
feed(file, pos, src, spos, todo, reads) ==
    IF todo = 0
    THEN [status |-> "ok", file |-> file, end |-> pos, spos |-> spos,
          reads |-> reads]
    ELSE LET buf == read(src, spos, Min(todo, ChunkSize)) IN
         IF buf = << >>
         THEN [status |-> "ShortRead", file |-> file, end |-> pos,
               spos |-> spos, reads |-> reads + 1]
         ELSE feed(write(file, pos, buf), pos + Len(buf), src,
                   spos + Len(buf), todo - Len(buf), reads + 1)

\* data_offset with the length of the filename forgotten
data_offset_without_name(offset, filename) == offset + 8

\* offset of the data of an entry whose header is at offset
data_offset(offset, filename) == offset + 8 + Len(filename)

\* size of the whole entry: header, filename and data
entry_size(size, filename) == size + 8 + Len(filename)

\* add with the length of the filename left out of "self.eof += ..."
add_body_short_advance(filename, src, size, w0) ==
    LET n == index_free[Len(index_free)]
        offset == eof
        f1 == write(f, n * 4 + 4, pack(offset))
        f2 == write(f1, offset, pack(size) \o pack(Len(filename)))
        f3 == write(f2, offset + 8, filename)
        fed == feed(f3, offset + 8 + Len(filename), src, 0, size, 0)
    IN  /\ index_free' = SubSeq(index_free, 1, Len(index_free) - 1)
        /\ eof' = eof + size + 8
        /\ index' = [index EXCEPT ![n + 1] = offset]
        /\ filenames' = [x \in DOMAIN filenames \cup {filename} |->
                            IF x = filename THEN n ELSE filenames[x]]
        /\ metadata' = [metadata EXCEPT ![n + 1] =
                ftldat_entry(filename, size, data_offset(offset, filename))]
        /\ f' = fed.file
        /\ written' = w0 \cup span(n * 4 + 4, 4)
                         \cup span(offset, fed.end - offset)
        /\ result' = Res("add", filename, fed.status, 0, 0, 0)
        /\ added' = IF fed.status = "ok"
                    THEN [x \in DOMAIN added \cup {filename} |->
                            IF x = filename THEN SubSeq(src, 1, size)
                            ELSE added[x]]
                    ELSE added
        /\ pc' = "idle"
        /\ pend' = NoArgs
        /\ sink' = << >>
        /\ source' = [short |-> Len(src) < size, pos |-> fed.spos,
                      reads |-> fed.reads]

add_body(filename, src, size, w0) ==
    LET n == index_free[Len(index_free)]
        offset == eof
        f1 == write(f, n * 4 + 4, pack(offset))
        f2 == write(f1, offset, pack(size) \o pack(Len(filename)))
        f3 == write(f2, offset + 8, filename)
        fed == feed(f3, offset + 8 + Len(filename), src, 0, size, 0)
    IN  /\ index_free' = SubSeq(index_free, 1, Len(index_free) - 1)
        /\ eof' = eof + entry_size(size, filename)
        /\ index' = [index EXCEPT ![n + 1] = offset]
        /\ filenames' = [x \in DOMAIN filenames \cup {filename} |->
                            IF x = filename THEN n ELSE filenames[x]]
        /\ metadata' = [metadata EXCEPT ![n + 1] =
                ftldat_entry(filename, size, data_offset(offset, filename))]
        /\ f' = fed.file
        /\ written' = w0 \cup span(n * 4 + 4, 4)
                         \cup span(offset, fed.end - offset)
        /\ result' = Res("add", filename, fed.status, 0, 0, 0)
        /\ added' = IF fed.status = "ok"
                    THEN [x \in DOMAIN added \cup {filename} |->
                            IF x = filename THEN SubSeq(src, 1, size)
                            ELSE added[x]]
                    ELSE added
        /\ pc' = "idle"
        /\ pend' = NoArgs
        /\ sink' = << >>
        /\ source' = [short |-> Len(src) < size, pos |-> fed.spos,
                      reads |-> fed.reads]

\* add with the index grown before the filename is looked up
add_grows_before_lookup(filename, src, size) ==
    /\ pc = "idle"
    /\ IF index_free = << >>
       THEN /\ pc' = "grow"
            /\ pend' = [filename |-> filename, src |-> src, size |-> size]
            /\ result' = Res("add", filename, "running", 0, 0, 0)
            /\ written' = {}
            /\ sink' = << >>
            /\ source' = NoSource
            /\ UNCHANGED <<f, index, index_free, metadata, filenames, eof,
                           added>>
       ELSE IF filename \in DOMAIN filenames
       THEN /\ result' = Res("add", filename, "DuplicateKey", 0, 0, 0)
            /\ written' = {}
            /\ sink' = << >>
            /\ source' = NoSource
            /\ UNCHANGED <<f, index, index_free, metadata, filenames, eof, pc,
                           pend, added>>
       ELSE add_body(filename, src, size, {})

\* add that grows the index while one slot is still free
add_grows_early(filename, src, size) ==
    /\ pc = "idle"
    /\ IF filename \in DOMAIN filenames
       THEN /\ result' = Res("add", filename, "DuplicateKey", 0, 0, 0)
            /\ written' = {}
            /\ sink' = << >>
            /\ source' = NoSource
            /\ UNCHANGED <<f, index, index_free, metadata, filenames, eof, pc,
                           pend, added>>
       ELSE IF Len(index_free) <= 1
       THEN /\ pc' = "grow"
            /\ pend' = [filename |-> filename, src |-> src, size |-> size]
            /\ result' = Res("add", filename, "running", 0, 0, 0)
            /\ written' = {}
            /\ sink' = << >>
            /\ source' = NoSource
            /\ UNCHANGED <<f, index, index_free, metadata, filenames, eof,
                           added>>
       ELSE add_body(filename, src, size, {})

add(filename, src, size) ==
    /\ pc = "idle"
    /\ IF filename \in DOMAIN filenames
       THEN /\ result' = Res("add", filename, "DuplicateKey", 0, 0, 0)
            /\ written' = {}
            /\ sink' = << >>
            /\ source' = NoSource
            /\ UNCHANGED <<f, index, index_free, metadata, filenames, eof, pc,
                           pend, added>>
       ELSE IF index_free = << >>
       THEN /\ pc' = "grow"
            /\ pend' = [filename |-> filename, src |-> src, size |-> size]
            /\ result' = Res("add", filename, "running", 0, 0, 0)
            /\ written' = {}
            /\ sink' = << >>
            /\ source' = NoSource
            /\ UNCHANGED <<f, index, index_free, metadata, filenames, eof,
                           added>>
       ELSE add_body(filename, src, size, {})

\* add, back from self._grow_index(): "assert self.index_free" and the rest
add_resume ==
    /\ pc = "grown"
    /\ IF index_free = << >>
       THEN /\ result' = Res("add", pend.filename, "AssertionError", 0, 0, 0)
            /\ pc' = "idle"
            /\ pend' = NoArgs
            /\ UNCHANGED <<f, index, index_free, metadata, filenames, eof,
                           sink, source, written, added>>
       ELSE add_body(pend.filename, pend.src, pend.size, written)

(***************************************************************************)
(* _grow_index(amount=1) and _move_to_eof(n): one action per turn of the   *)
(* "while True" loop.                                                      *)
(***************************************************************************)
amount == 1

index_used == { n \in 0..(Len(index) - 1) : index[n + 1] # 0 }

\* max instead of min: the used slot with the highest offset
first_used_highest ==
    CHOOSE n \in index_used :
        \A m \in index_used :
            \/ index[n + 1] > index[m + 1]
            \/ (index[n + 1] = index[m + 1] /\ n <= m)

\* min(index_used, key=lambda n: self.index[n]): the first minimal one
first_used ==
    CHOOSE n \in index_used :
        \A m \in index_used :
            \/ index[n + 1] < index[m + 1]
            \/ (index[n + 1] = index[m + 1] /\ n <= m)

free_room ==
    IF index_used = {} THEN amount
    ELSE (index[first_used + 1] - Len(index) * 4 - 4) \div 4

\* the copy loop of _move_to_eof and of repack
RECURSIVE copy(_, _, _, _, _)
copy(file, old_offset, new_offset, size, todo) ==
    IF todo = 0 THEN [status |-> "ok", file |-> file, todo |-> 0]
    ELSE LET buf == read(file, old_offset + size - todo, Min(ChunkSize, todo)) IN
         IF buf = << >> THEN [status |-> "empty", file |-> file, todo |-> todo]
         ELSE copy(write(file, new_offset + size - todo, buf), old_offset,
                   new_offset, size, todo - Len(buf))

\* _move_to_eof with the 8 bytes of the header left out of the entry's size
move_to_eof_without_header(n) ==
    LET old_offset == index[n + 1]
        new_offset == eof
        size == metadata[n + 1].size + Len(metadata[n + 1].filename)
        moved == copy(f, old_offset, new_offset, size, size)
    IN  /\ eof' = eof + size
        /\ f' = write(moved.file, n * 4 + 4, pack(new_offset))
        /\ index' = [index EXCEPT ![n + 1] = new_offset]
        /\ metadata' = [metadata EXCEPT ![n + 1].offset =
                data_offset(new_offset, metadata[n + 1].filename)]
        /\ written' = written \cup span(new_offset, size)
                              \cup span(n * 4 + 4, 4)
        /\ UNCHANGED <<pc, pend, result, index_free, filenames, sink, source, added>>

\* _move_to_eof without "self.eof += size"
move_to_eof_keeps_eof(n) ==
    LET old_offset == index[n + 1]
        new_offset == eof
        size == entry_size(metadata[n + 1].size, metadata[n + 1].filename)
        moved == copy(f, old_offset, new_offset, size, size)
    IN  /\ eof' = eof
        /\ IF moved.status = "ok"
           THEN /\ f' = write(moved.file, n * 4 + 4, pack(new_offset))
                /\ index' = [index EXCEPT ![n + 1] = new_offset]
                /\ metadata' = [metadata EXCEPT ![n + 1].offset =
                        data_offset(new_offset, metadata[n + 1].filename)]
                /\ written' = written \cup span(new_offset, size)
                                      \cup span(n * 4 + 4, 4)
                /\ UNCHANGED <<pc, pend, result>>
           ELSE \* "assert buf" fails
                /\ f' = moved.file
                /\ written' = written \cup span(new_offset, size - moved.todo)
                /\ result' = Res("add", pend.filename, "AssertionError", 0, 0, 0)
                /\ pc' = "idle"
                /\ pend' = NoArgs
                /\ UNCHANGED <<index, metadata>>
        /\ UNCHANGED <<index_free, filenames, sink, source, added>>

move_to_eof(n) ==
    LET old_offset == index[n + 1]
        new_offset == eof
        size == entry_size(metadata[n + 1].size, metadata[n + 1].filename)
        moved == copy(f, old_offset, new_offset, size, size)
    IN  /\ eof' = eof + size
        /\ IF moved.status = "ok"
           THEN /\ f' = write(moved.file, n * 4 + 4, pack(new_offset))
                /\ index' = [index EXCEPT ![n + 1] = new_offset]
                /\ metadata' = [metadata EXCEPT ![n + 1].offset =
                        data_offset(new_offset, metadata[n + 1].filename)]
                /\ written' = written \cup span(new_offset, size)
                                      \cup span(n * 4 + 4, 4)
                /\ UNCHANGED <<pc, pend, result>>
           ELSE \* "assert buf" fails
                /\ f' = moved.file
                /\ written' = written \cup span(new_offset, size - moved.todo)
                /\ result' = Res("add", pend.filename, "AssertionError", 0, 0, 0)
                /\ pc' = "idle"
                /\ pend' = NoArgs
                /\ UNCHANGED <<index, metadata>>
        /\ UNCHANGED <<index_free, filenames, sink, source, added>>

grow_move ==
    /\ pc = "grow"
    /\ free_room < amount
    /\ move_to_eof(first_used)

\* the extension with xrange stopping one index early: one push too few
grow_extend_one_push_less ==
    /\ pc = "grow"
    /\ free_room >= amount
    /\ LET len == Len(index) + free_room IN
        /\ index_free' = index_free \o range_down(len - 1, Len(index))
        /\ index' = index \o zeros(free_room)
        /\ metadata' = metadata \o nones(free_room)
        /\ f' = write(write(f, 0, pack(len)),
                      (len - free_room) * 4 + 4, zeros(4 * free_room))
        /\ written' = written \cup span(0, 4)
                        \cup span((len - free_room) * 4 + 4, 4 * free_room)
    /\ pc' = "grown"
    /\ UNCHANGED <<filenames, eof, pend, result, sink, source, added>>

\* the loop left only when free_room > amount
grow_extend_strict ==
    /\ pc = "grow"
    /\ free_room > amount
    /\ LET len == Len(index) + free_room IN
        /\ index_free' = index_free \o range_down(len - 1, Len(index) - 1)
        /\ index' = index \o zeros(free_room)
        /\ metadata' = metadata \o nones(free_room)
        /\ f' = write(write(f, 0, pack(len)),
                      (len - free_room) * 4 + 4, zeros(4 * free_room))
        /\ written' = written \cup span(0, 4)
                        \cup span((len - free_room) * 4 + 4, 4 * free_room)
    /\ pc' = "grown"
    /\ UNCHANGED <<filenames, eof, pend, result, sink, source, added>>

grow_extend ==
    /\ pc = "grow"
    /\ free_room >= amount
    /\ LET len == Len(index) + free_room IN
        /\ index_free' = index_free \o range_down(len - 1, Len(index) - 1)
        /\ index' = index \o zeros(free_room)
        /\ metadata' = metadata \o nones(free_room)
        /\ f' = write(write(f, 0, pack(len)),
                      (len - free_room) * 4 + 4, zeros(4 * free_room))
        /\ written' = written \cup span(0, 4)
                        \cup span((len - free_room) * 4 + 4, 4 * free_room)
    /\ pc' = "grown"
    /\ UNCHANGED <<filenames, eof, pend, result, sink, source, added>>

(***************************************************************************)
(* remove(filename)                                                        *)
(***************************************************************************)
\* remove without "del self.filenames[filename]"
remove_keeps_name(filename) ==
    /\ pc = "idle"
    /\ sink' = << >>
    /\ source' = NoSource
    /\ IF filename \notin DOMAIN filenames
       THEN /\ result' = Res("remove", filename, "KeyError", 0, 0, 0)
            /\ written' = {}
            /\ UNCHANGED <<f, index, index_free, metadata, filenames, eof, pc,
                           pend, added>>
       ELSE LET n == filenames[filename] IN
            /\ index' = [index EXCEPT ![n + 1] = 0]
            /\ index_free' = Append(index_free, n)
            /\ metadata' = [metadata EXCEPT ![n + 1] = None]
            /\ f' = write(f, n * 4 + 4, pack(0))
            /\ written' = span(n * 4 + 4, 4)
            /\ result' = Res("remove", filename, "ok", 0, 0, 0)
            /\ added' = [x \in DOMAIN added \ {filename} |-> added[x]]
            /\ UNCHANGED <<filenames, eof, pc, pend>>

\* remove that returns quietly when the filename is absent
remove_quiet(filename) ==
    /\ pc = "idle"
    /\ sink' = << >>
    /\ source' = NoSource
    /\ IF filename \notin DOMAIN filenames
       THEN /\ result' = Res("remove", filename, "ok", 0, 0, 0)
            /\ written' = {}
            /\ UNCHANGED <<f, index, index_free, metadata, filenames, eof, pc,
                           pend, added>>
       ELSE LET n == filenames[filename] IN
            /\ index' = [index EXCEPT ![n + 1] = 0]
            /\ index_free' = Append(index_free, n)
            /\ metadata' = [metadata EXCEPT ![n + 1] = None]
            /\ filenames' = [x \in DOMAIN filenames \ {filename} |->
                                filenames[x]]
            /\ f' = write(f, n * 4 + 4, pack(0))
            /\ written' = span(n * 4 + 4, 4)
            /\ result' = Res("remove", filename, "ok", 0, 0, 0)
            /\ added' = [x \in DOMAIN added \ {filename} |-> added[x]]
            /\ UNCHANGED <<eof, pc, pend>>

\* remove without "self.index[n] = 0"
remove_keeps_offset(filename) ==
    /\ pc = "idle"
    /\ sink' = << >>
    /\ source' = NoSource
    /\ IF filename \notin DOMAIN filenames
       THEN /\ result' = Res("remove", filename, "KeyError", 0, 0, 0)
            /\ written' = {}
            /\ UNCHANGED <<f, index, index_free, metadata, filenames, eof, pc,
                           pend, added>>
       ELSE LET n == filenames[filename] IN
            /\ index' = index
            /\ index_free' = Append(index_free, n)
            /\ metadata' = [metadata EXCEPT ![n + 1] = None]
            /\ filenames' = [x \in DOMAIN filenames \ {filename} |->
                                filenames[x]]
            /\ f' = write(f, n * 4 + 4, pack(0))
            /\ written' = span(n * 4 + 4, 4)
            /\ result' = Res("remove", filename, "ok", 0, 0, 0)
            /\ added' = [x \in DOMAIN added \ {filename} |-> added[x]]
            /\ UNCHANGED <<eof, pc, pend>>

remove(filename) ==
    /\ pc = "idle"
    /\ sink' = << >>
    /\ source' = NoSource
    /\ IF filename \notin DOMAIN filenames
       THEN /\ result' = Res("remove", filename, "KeyError", 0, 0, 0)
            /\ written' = {}
            /\ UNCHANGED <<f, index, index_free, metadata, filenames, eof, pc,
                           pend, added>>
       ELSE LET n == filenames[filename] IN
            /\ index' = [index EXCEPT ![n + 1] = 0]
            /\ index_free' = Append(index_free, n)
            /\ metadata' = [metadata EXCEPT ![n + 1] = None]
            /\ filenames' = [x \in DOMAIN filenames \ {filename} |->
                                filenames[x]]
            /\ f' = write(f, n * 4 + 4, pack(0))
            /\ written' = span(n * 4 + 4, 4)
            /\ result' = Res("remove", filename, "ok", 0, 0, 0)
            /\ added' = [x \in DOMAIN added \ {filename} |-> added[x]]
            /\ UNCHANGED <<eof, pc, pend>>

(***************************************************************************)
(* repack()                                                                *)
(***************************************************************************)
repack_entry(old_n, old_offset, filename, size, new_offset) ==
    [old_n |-> old_n, old_offset |-> old_offset, filename |-> filename,
     size |-> size, new_offset |-> new_offset]

\* entries.sort(key=lambda x: x.old_offset): a stable sort
RECURSIVE sort(_)
sort(es) ==
    IF es = << >> THEN << >>
    ELSE LET e == es[Len(es)]
             front == sort(SubSeq(es, 1, Len(es) - 1))
             k == Cardinality({ i \in 1..Len(front) :
                                  front[i].old_offset <= e.old_offset })
         IN  SubSeq(front, 1, k) \o <<e>> \o SubSeq(front, k + 1, Len(front))

\* the list comprehension over enumerate(self.index), then the sort
RECURSIVE collect(_)
collect(n) ==
    IF n = 0 THEN << >>
    ELSE IF index[n] # 0
    THEN Append(collect(n - 1),
                repack_entry(n - 1, index[n], metadata[n].filename,
                             metadata[n].size, 0))
    ELSE collect(n - 1)

old_entries == sort(collect(Len(index)))

\* "Check for overlap"
overlap(entries) ==
    \E i \in 1..(Len(entries) - 1) :
        entries[i].old_offset + entries[i].size > entries[i + 1].old_offset

\* layout with the 8 bytes of each header forgotten
RECURSIVE layout_without_header(_, _)
layout_without_header(entries, offset) ==
    IF entries = << >> THEN << >>
    ELSE <<[entries[1] EXCEPT !.new_offset = offset]>>
         \o layout_without_header(Tail(entries),
                offset + entries[1].size + Len(entries[1].filename))

\* "Create new layout": the entries with new_offset set, from offset on
RECURSIVE layout(_, _)
layout(entries, offset) ==
    IF entries = << >> THEN << >>
    ELSE <<[entries[1] EXCEPT !.new_offset = offset]>>
         \o layout(Tail(entries),
                   offset + entry_size(entries[1].size, entries[1].filename))

\* the new layout placed after a table as long as the old one
new_entries_after_old_table == layout(old_entries, 4 + Len(index) * 4)

new_entries == layout(old_entries, 4 + Len(old_entries) * 4)

new_total_size ==
    IF new_entries = << >> THEN 4
    ELSE LET e == new_entries[Len(new_entries)] IN
         e.new_offset + entry_size(e.size, e.filename)

\* "Write new index": st is the file, what was written, skipped and
\* bytes_moved; i is the turn of the loop (n = i - 1)
RECURSIVE write_index(_, _, _)
write_index(entries, i, st) ==
    IF i > Len(entries) THEN st
    ELSE IF entries[i].new_offset = index[i]
    THEN write_index(entries, i + 1, [st EXCEPT !.skipped = TRUE])
    ELSE LET pos == IF st.skipped THEN 4 + 4 * (i - 1) ELSE st.pos IN
         write_index(entries, i + 1,
            [file |-> write(st.file, pos, pack(entries[i].new_offset)),
             wr |-> st.wr \cup span(pos, 4),
             pos |-> pos + 4,
             skipped |-> FALSE,
             bytes_moved |-> st.bytes_moved + 4])

index_written(entries) ==
    write_index(entries, 1,
        IF Len(entries) = Len(index)
        THEN [file |-> f, wr |-> {}, pos |-> 0, skipped |-> TRUE,
              bytes_moved |-> 0]
        ELSE [file |-> write(f, 0, pack(Len(entries))), wr |-> span(0, 4),
              pos |-> 4, skipped |-> FALSE, bytes_moved |-> 4])

\* "Move files": stops at a failed assertion, or at a read that returns
\* nothing (the loop then never ends)
RECURSIVE move_files(_, _, _)
move_files(entries, i, st) ==
    IF i > Len(entries) THEN st
    ELSE LET e == entries[i]
             size == entry_size(e.size, e.filename)
         IN
         IF e.new_offset = e.old_offset THEN move_files(entries, i + 1, st)
         ELSE IF ~(e.new_offset < e.old_offset)
         THEN [st EXCEPT !.status = "AssertionError",
                         !.bytes_moved = st.bytes_moved + size]
         ELSE LET moved == copy(st.file, e.old_offset, e.new_offset, size, size)
              IN
              IF moved.status # "ok"
              THEN [status |-> "hang", file |-> moved.file,
                    wr |-> st.wr \cup span(e.new_offset, size - moved.todo),
                    bytes_moved |-> st.bytes_moved + size]
              ELSE move_files(entries, i + 1,
                    [status |-> "ok", file |-> moved.file,
                     wr |-> st.wr \cup span(e.new_offset, size),
                     bytes_moved |-> st.bytes_moved + size])

\* the overlap check made after "Write new index" instead of before it
repack_run_checks_late ==
    LET ix == index_written(new_entries) IN
    IF overlap(old_entries)
    THEN [status |-> "FTLDatError", file |-> ix.file, wr |-> ix.wr,
          bytes_moved |-> 0]
    ELSE move_files(new_entries, 1,
            [status |-> "ok", file |-> ix.file, wr |-> ix.wr,
             bytes_moved |-> ix.bytes_moved])

\* the calls of repack up to "Truncate the ftldat!": how they end, the file
\* they leave, what they wrote and bytes_moved
repack_run ==
    IF overlap(old_entries)
    THEN [status |-> "FTLDatError", file |-> f, wr |-> {}, bytes_moved |-> 0]
    ELSE LET ix == index_written(new_entries) IN
         move_files(new_entries, 1,
            [status |-> "ok", file |-> ix.file, wr |-> ix.wr,
             bytes_moved |-> ix.bytes_moved])

repack ==
    /\ pc = "idle"
    /\ sink' = << >>
    /\ source' = NoSource
    /\ written' = repack_run.wr
    /\ IF repack_run.status # "ok"
       THEN /\ f' = repack_run.file
            /\ result' = Res("repack", << >>, repack_run.status, 0, 0, 0)
            /\ pc' = IF repack_run.status = "hang" THEN "hung" ELSE "idle"
            /\ UNCHANGED <<index, index_free, metadata, filenames, eof, pend,
                           added>>
       ELSE LET entries == new_entries IN
            /\ f' = truncate(repack_run.file, new_total_size)
            /\ eof' = new_total_size
            /\ index' = [i \in 1..Len(entries) |-> entries[i].new_offset]
            /\ metadata' = [i \in 1..Len(entries) |->
                   ftldat_entry(entries[i].filename, entries[i].size,
                       data_offset(entries[i].new_offset,
                                   entries[i].filename))]
            /\ filenames' = [x \in { entries[i].filename :
                                       i \in 1..Len(entries) } |->
                   CHOOSE n \in 0..(Len(entries) - 1) :
                       /\ entries[n + 1].filename = x
                       /\ \A m \in (n + 1)..(Len(entries) - 1) :
                               entries[m + 1].filename # x]
            /\ index_free' = << >>
            /\ result' = Res("repack", << >>, "ok", repack_run.bytes_moved,
                             eof, new_total_size)
            /\ UNCHANGED <<pc, pend, added>>

(***************************************************************************)
(* FTLPack(f): _read_index on an existing file.                            *)
(***************************************************************************)
MaxSlots == 2       \* the files to open hold 0..MaxSlots slots
MaxLoadEof == 52    \* the bound on self.eof for adds to an opened file

\* The names stored in the files to open.
LoadNames == { <<97>>, <<100>> }

\* One slot of a file to open: free, or pointing at an entry whose header
\* starts gap bytes after the table and declares size data bytes.
FreeSlot == [used |-> FALSE, gap |-> 0, filename |-> << >>, size |-> 0]

Slots ==
    {FreeSlot} \cup [used : {TRUE}, gap : {0, 9}, filename : LoadNames,
                     size : {0, 1, 12}]

\* The bytes of a file: the slots are written one after the other, pointer
\* and entry (header, name, at most MaxData bytes of the declared data).
RECURSIVE put(_, _, _)
put(file, slots, n) ==
    IF n >= Len(slots) THEN file
    ELSE LET s == slots[n + 1]
             offset == 4 + 4 * Len(slots) + s.gap
             entry == pack(s.size) \o pack(Len(s.filename)) \o s.filename
                        \o [i \in 1..Min(s.size, MaxData) |-> 1]
         IN  IF ~s.used THEN put(file, slots, n + 1)
             ELSE put(write(write(file, 4 + 4 * n, pack(offset)),
                            offset, entry),
                      slots, n + 1)

image(slots) == put(pack(Len(slots)) \o zeros(4 * Len(slots)), slots, 0)

Files ==
    UNION { { image(slots) : slots \in [1..K -> Slots] } : K \in 0..MaxSlots }

\* the loop without the "occurs more than once" check: the last slot wins
RECURSIVE scan_last_wins(_, _, _, _, _, _)
scan_last_wins(file, idx, n, free, meta, names) ==
    IF n >= Len(idx)
    THEN [status |-> "ok", index_free |-> free, metadata |-> meta,
          filenames |-> names]
    ELSE LET offset == idx[n + 1]
             head == read(file, offset, 8)
         IN
         IF offset = 0
         THEN scan_last_wins(file, idx, n + 1, Append(free, n), meta, names)
         ELSE IF Len(head) < 8
         THEN [status |-> "struct.error", index_free |-> free,
               metadata |-> meta, filenames |-> names]
         ELSE LET size == unpack(SubSeq(head, 1, 4))
                  lfn == unpack(SubSeq(head, 5, 8))
                  filename == read(file, offset + 8, lfn)
                  meta2 == [meta EXCEPT ![n + 1] =
                              ftldat_entry(filename, size,
                                           offset + 8 + Len(filename))]
              IN  scan_last_wins(file, idx, n + 1, free, meta2,
                      [x \in DOMAIN names \cup {filename} |->
                          IF x = filename THEN n ELSE names[x]])

\* the loop over enumerate(self.index), from slot n on
RECURSIVE scan(_, _, _, _, _, _)
scan(file, idx, n, free, meta, names) ==
    IF n >= Len(idx)
    THEN [status |-> "ok", index_free |-> free, metadata |-> meta,
          filenames |-> names]
    ELSE LET offset == idx[n + 1]
             head == read(file, offset, 8)
         IN
         IF offset = 0
         THEN scan(file, idx, n + 1, Append(free, n), meta, names)
         ELSE IF Len(head) < 8
         THEN [status |-> "struct.error", index_free |-> free,
               metadata |-> meta, filenames |-> names]
         ELSE LET size == unpack(SubSeq(head, 1, 4))
                  lfn == unpack(SubSeq(head, 5, 8))
                  filename == read(file, offset + 8, lfn)
                  meta2 == [meta EXCEPT ![n + 1] =
                              ftldat_entry(filename, size,
                                           offset + 8 + Len(filename))]
              IN  IF filename \in DOMAIN names
                  THEN [status |-> "FTLDatError", index_free |-> free,
                        metadata |-> meta2, filenames |-> names]
                  ELSE scan(file, idx, n + 1, free, meta2,
                            [x \in DOMAIN names \cup {filename} |->
                                IF x = filename THEN n ELSE names[x]])

\* the slot words of the table, as far as the file holds them
table(file) ==
    LET index_size == unpack(read(file, 0, 4)) IN
    [n \in 1..index_size |-> read(file, 4 * n, 4)]

\* the payload a loaded entry points at
payload(file, entry) == read(file, entry.offset, entry.size)

read_index ==
    /\ pc = "closed"
    /\ sink' = << >>
    /\ source' = NoSource
    /\ written' = {}
    /\ UNCHANGED <<f, pend>>
    /\ IF Len(read(f, 0, 4)) < 4 \/ \E n \in DOMAIN table(f) : Len(table(f)[n]) < 4
       THEN /\ result' = Res("open", << >>, "struct.error", 0, 0, 0)
            /\ pc' = "failed"
            /\ UNCHANGED <<index, index_free, metadata, filenames, eof, added>>
       ELSE LET idx == [n \in DOMAIN table(f) |-> unpack(table(f)[n])]
                r == scan(f, idx, 0, << >>, nones(Len(idx)), EmptyMap)
            IN  /\ index' = idx
                /\ index_free' = r.index_free
                /\ metadata' = r.metadata
                /\ filenames' = r.filenames
                /\ result' = Res("open", << >>, r.status, 0, 0, 0)
                /\ IF r.status = "ok"
                   THEN /\ eof' = Len(f)
                        /\ pc' = "idle"
                        /\ added' = [x \in DOMAIN r.filenames |->
                              payload(f, r.metadata[r.filenames[x] + 1])]
                   ELSE /\ pc' = "failed"
                        /\ UNCHANGED <<eof, added>>

InitLoad ==
    /\ f \in Files
    /\ index = << >>
    /\ index_free = << >>
    /\ metadata = << >>
    /\ filenames = EmptyMap
    /\ eof = 0
    /\ pc = "closed"
    /\ pend = NoArgs
    /\ result = Res("open", << >>, "running", 0, 0, 0)
    /\ sink = << >>
    /\ source = NoSource
    /\ written = {}
    /\ added = EmptyMap

(***************************************************************************)
(* The calls a client makes, one after the other.                          *)
(***************************************************************************)
\* what _grow_index would append to the file for an add issued now
grow_cost ==
    IF index_free = << >> /\ index_used # {}
    THEN entry_size(metadata[first_used + 1].size,
                    metadata[first_used + 1].filename)
    ELSE 0

\* an add is issued only while the file stays within the model's bound
room(filename, size) ==
    eof + grow_cost + entry_size(size, filename) <= MaxEof

Next ==
    \/ \E filename \in Names, src \in Sources :
          \E size \in 0..Len(src) :
              room(filename, size) /\ add(filename, src, size)
    \/ grow_move
    \/ grow_extend
    \/ add_resume
    \/ \E filename \in Names : extract_to(filename)
    \/ \E filename \in Names : remove(filename)
    \/ repack

Spec == Init /\ [][Next]_vars

\* A call that was made runs on: the loop of _grow_index takes its next
\* turn.
SpecFair ==
    /\ Spec
    /\ WF_vars(grow_move)
    /\ WF_vars(grow_extend)

\* the calls of Next, with sources that may end before the declared size
NextShort ==
    \/ \E filename \in Names, src \in Sources :
          \E size \in 0..(Len(src) + 1) :
              room(filename, size) /\ add(filename, src, size)
    \/ grow_move
    \/ grow_extend
    \/ add_resume
    \/ \E filename \in Names : extract_to(filename)
    \/ \E filename \in Names : remove(filename)
    \/ repack

SpecShort == Init /\ [][NextShort]_vars

room_load(filename, size) ==
    eof + grow_cost + entry_size(size, filename) <= MaxLoadEof

\* the calls made on a container opened from an existing file
NextLoad ==
    \/ read_index
    \/ \E filename \in Names, src \in Sources :
          room_load(filename, Len(src)) /\ add(filename, src, Len(src))
    \/ grow_move
    \/ grow_extend
    \/ add_resume
    \/ \E filename \in LoadNames : remove(filename)
    \/ repack

SpecLoad == InitLoad /\ [][NextLoad]_vars

(***************************************************************************)
(* list(), list_sizes(), __contains__                                      *)
(***************************************************************************)
list == DOMAIN filenames

list_sizes == { <<x, metadata[filenames[x] + 1].size>> : x \in DOMAIN filenames }

contains(filename) == filename \in DOMAIN filenames

\* what extract_to yields for every name, live or not
extracted == [x \in Names |-> extract(x)]

(***************************************************************************)
(* The properties.                                                         *)
(***************************************************************************)

\* C1: after any sequence of add, remove and repack calls (index growth
\* included), extract_to of every name that was added and not removed since
\* succeeds and writes exactly the bytes supplied to the add of that name.
C1_RoundTrip ==
    pc = "idle" =>
        \A x \in DOMAIN added :
            extract(x) = [status |-> "ok", out |-> added[x]]

\* C1 witness: extract_to has just returned the non-empty data of one of two
\* live entries, in a file whose index was grown (it has more slots than any
\* created one).
C1_Witness ==
    /\ pc = "idle"
    /\ result.op = "extract_to"
    /\ result.status = "ok"
    /\ result.name \in DOMAIN added
    /\ sink = added[result.name]
    /\ sink # << >>
    /\ Cardinality(DOMAIN added) = 2
    /\ Len(index) > MaxCap

\* C2: after every completed call the header offsets of the occupied slots
\* are pairwise distinct and none lies inside the slot table.
C2_OffsetsAfterTable ==
    pc = "idle" =>
        /\ \A n \in index_used : index[n + 1] >= 4 + 4 * Len(index)
        /\ \A n, m \in index_used : n # m => index[n + 1] # index[m + 1]

\* C3: after every completed operation (create, add, remove, index growth,
\* repack) self.eof is the length of the file.
C3_EofIsFileLength ==
    (pc \in {"idle", "grown"} /\ result.status \in {"ok", "running"}) =>
        eof = Len(f)

\* C4: a repack that returns leaves the set of (name, size) pairs and what
\* extract_to yields for every name as they were before the call.
C4_RepackPreserves ==
    [][(pc = "idle" /\ result'.op = "repack" /\ result'.status = "ok") =>
            (list_sizes' = list_sizes /\ extracted' = extracted)]_vars

\* C4 witness: repack returned after moving two live entries, one of them
\* with data, in a file that had slack.
C4_Witness ==
    /\ pc = "idle"
    /\ result.op = "repack"
    /\ result.status = "ok"
    /\ result.old_size > result.new_size
    /\ result.bytes_moved > 8
    /\ Cardinality(list) = 2
    /\ \E x \in list : extract(x).out # << >>

\* the bytes the entries of the slots in S take: 8 + len(name) + size each
RECURSIVE sum_sizes(_)
sum_sizes(S) ==
    IF S = {} THEN 0
    ELSE LET n == CHOOSE n \in S : TRUE IN
         entry_size(metadata[n + 1].size, metadata[n + 1].filename)
            + sum_sizes(S \ {n})

\* C5: after repack returns, new_size, self.eof and the file length are
\* 4 + 4*live_count + the sum of 8 + len(name) + size over the live entries;
\* the index has live_count slots, no slot is free, and every entry starts
\* where the table, or the entry before it, ends.
C5_RepackMinimal ==
    (pc = "idle" /\ result.op = "repack" /\ result.status = "ok") =>
        LET live_count == Cardinality(list) IN
        /\ result.new_size = 4 + 4 * live_count + sum_sizes(index_used)
        /\ eof = result.new_size
        /\ Len(f) = result.new_size
        /\ Len(index) = live_count
        /\ Cardinality(index_used) = live_count
        /\ index_free = << >>
        /\ \A n \in index_used :
              index[n + 1] = 4 + 4 * live_count
                  + sum_sizes({ m \in index_used : index[m + 1] < index[n + 1] })

\* C5 witness: repack returned with two live entries and a smaller file.
C5_Witness ==
    /\ pc = "idle"
    /\ result.op = "repack"
    /\ result.status = "ok"
    /\ Cardinality(list) = 2
    /\ result.new_size < result.old_size
    /\ result.new_size = Len(f)

\* C6: in any reachable state, when repack is called right after a repack
\* call, the second call returns bytes_moved = 0 and new_size = old_size and
\* writes nothing to the file.  (The state right after the first call is the
\* one whose last call is repack; the second call is repack run from it.)
C6_RepackIdempotent ==
    (pc = "idle" /\ result.op = "repack") =>
        /\ repack_run.status = "ok"
        /\ repack_run.bytes_moved = 0
        /\ new_total_size = eof
        /\ repack_run.wr = {}
        /\ truncate(repack_run.file, new_total_size) = f

\* C7: every turn of index growth (a relocation to the end of the file, or
\* the extension of the table) leaves the name and size of every live entry
\* and what extract_to yields for it unchanged.
C7_GrowthPreserves ==
    [][pc = "grow" => (list_sizes' = list_sizes /\ extracted' = extracted)]_vars

\* C7 witness: growth has ended after relocating a live entry with data.
C7_Witness ==
    /\ pc = "grown"
    /\ \E x \in list :
          /\ index[filenames[x] + 1] \in written
          /\ extract(x).status = "ok"
          /\ extract(x).out # << >>
          /\ extract(x).out = added[x]

\* C8: add with a name that is live fails with the duplicate-key error and
\* changes neither the file nor the in-memory state; no growth is started.
C8_DuplicateRejected ==
    [][(pc = "idle" /\ result'.op = "add" /\ result'.name \in list) =>
            /\ result'.status = "DuplicateKey"
            /\ pc' = "idle"
            /\ written' = {}
            /\ UNCHANGED <<f, eof, index, index_free, metadata, filenames>>]_vars

\* C8 witness: a duplicate add was rejected while no slot was free.
C8_Witness ==
    /\ pc = "idle"
    /\ result.op = "add"
    /\ result.status = "DuplicateKey"
    /\ result.name \in list
    /\ index_free = << >>

\* C9: extract_to and remove with a name that is not live fail with the
\* not-found error, write nothing to the sink or the file and leave the
\* in-memory state unchanged.
C9_NotFound ==
    [][(pc = "idle" /\ result'.op \in {"extract_to", "remove"}
          /\ result'.name \notin list) =>
            /\ result'.status = "KeyError"
            /\ sink' = << >>
            /\ written' = {}
            /\ UNCHANGED <<f, eof, index, index_free, metadata, filenames>>]_vars

\* C9 witness: remove of an absent name failed on a pack that holds another
\* entry.
C9_Witness ==
    /\ pc = "idle"
    /\ result.op = "remove"
    /\ result.status = "KeyError"
    /\ result.name \notin list
    /\ list # {}

\* C10: an add issued while a slot is free, and any remove, completes without
\* index growth: the number of slots, in memory and in the file's header, is
\* what it was.
C10_FreeSlotReuse ==
    [][(pc = "idle" /\ result'.op \in {"add", "remove"}
          /\ (result'.op = "add" => index_free # << >>)) =>
            /\ pc' = "idle"
            /\ Len(index') = Len(index)
            /\ read(f', 0, 4) = read(f, 0, 4)]_vars

\* C10 witness: an add has succeeded in a one-slot pack that holds the bytes
\* of a removed entry: the slot was reused and the table did not grow.
C10_Witness ==
    /\ pc = "idle"
    /\ result.op = "add"
    /\ result.status = "ok"
    /\ Len(index) = 1
    /\ unpack(read(f, 0, 4)) = 1
    /\ index_used = {0}
    /\ eof > 4 + 4 * Len(index) + sum_sizes(index_used)

\* C11: after any sequence of calls, list_sizes() yields exactly one pair
\* (name, size) for each name added and not removed since, with the size
\* declared at its add; list() yields those names and contains(name) is true
\* for exactly those names.
C11_Listing ==
    pc = "idle" =>
        /\ list_sizes = { <<x, Len(added[x])>> : x \in DOMAIN added }
        /\ Cardinality(list_sizes) = Cardinality(DOMAIN added)
        /\ list = DOMAIN added
        /\ \A x \in Names : contains(x) <=> x \in DOMAIN added

\* C11 witness: a remove has left one of two entries, of size 1, in a pack
\* whose index was grown.
C11_Witness ==
    /\ pc = "idle"
    /\ result.op = "remove"
    /\ result.status = "ok"
    /\ Len(index) > MaxCap
    /\ \E x \in Names : list_sizes = { <<x, 1>> } /\ ~contains(result.name)

\* C16: in every state after a call, repack computes for every live entry a
\* new offset <= its old offset, so the assertion guarding each relocation
\* never fails.
C16_RepackMovesDown ==
    (pc = "idle" /\ ~overlap(old_entries)) =>
        /\ \A i \in 1..Len(new_entries) :
              new_entries[i].new_offset <= new_entries[i].old_offset
        /\ repack_run.status # "AssertionError"

\* the lowest header offset among the used slots
lowest_offset == index[first_used + 1]

\* C17 as claimed: when growth completes, the index has grown by exactly
\* amount slots.
C17_GrowsByAmount ==
    [][(pc = "grow" /\ pc' = "grown") =>
            Len(index') = Len(index) + amount]_vars

\* C17 as amended: when growth completes, the index has grown by k >= amount
\* slots, k being amount when no slot is used and otherwise the number of
\* whole slot words between the old end of the table and the lowest entry
\* header; the header on disk holds the new number of slots, the k new slot
\* words on disk are zero, the k new indices were pushed on the free-slot
\* stack, highest first, and nothing else in the file changed.
C17_GrowsByFreeRoom ==
    [][(pc = "grow" /\ pc' = "grown") =>
          LET k == Len(index') - Len(index)
              table_end == 4 + 4 * Len(index)
          IN  /\ k >= amount
              /\ k = IF index_used = {} THEN amount
                     ELSE (lowest_offset - table_end) \div 4
              /\ index' = index \o [i \in 1..k |-> 0]
              /\ Len(metadata') = Len(index')
              /\ unpack(read(f', 0, 4)) = Len(index')
              /\ read(f', table_end, 4 * k) = [i \in 1..(4 * k) |-> 0]
              /\ \A p \in 4..(Len(f) - 1) :
                    p \notin span(table_end, 4 * k) => f'[p + 1] = f[p + 1]
              /\ index_free' =
                    index_free \o [i \in 1..k |-> Len(index') - i]]_vars

\* C17 witness: growth has ended with two new slots although amount is 1.
C17_Witness ==
    /\ pc = "grown"
    /\ index_used # {}
    /\ index_free = <<Len(index) - 1, Len(index) - 2>>
    /\ amount = 1

\* C20: remove of a live name writes only the 4-byte zero at its slot's
\* pointer, pushes the slot on the free-slot stack and deletes the name;
\* self.eof, the file length, the bytes of the removed entry and the slot,
\* offset, name, size and bytes of every other live entry stay as they were.
C20_RemoveFrame ==
    [][(pc = "idle" /\ result'.op = "remove" /\ result'.name \in list) =>
          LET n == filenames[result'.name]
              whole(m) == read(f, index[m + 1],
                    entry_size(metadata[m + 1].size, metadata[m + 1].filename))
              whole_after(m) == read(f', index[m + 1],
                    entry_size(metadata[m + 1].size, metadata[m + 1].filename))
          IN  /\ result'.status = "ok"
              /\ written' = span(4 + 4 * n, 4)
              /\ read(f', 4 + 4 * n, 4) = <<0, 0, 0, 0>>
              /\ index_free' = Append(index_free, n)
              /\ list' = list \ {result'.name}
              /\ eof' = eof
              /\ Len(f') = Len(f)
              /\ whole_after(n) = whole(n)
              /\ \A x \in list \ {result'.name} :
                    /\ filenames'[x] = filenames[x]
                    /\ index'[filenames[x] + 1] = index[filenames[x] + 1]
                    /\ metadata'[filenames[x] + 1] = metadata[filenames[x] + 1]
                    /\ whole_after(filenames[x]) = whole(filenames[x])]_vars

\* the full length on disk of the entry in slot m: header, name and data
full_size(m) == entry_size(metadata[m + 1].size, metadata[m + 1].filename)

\* C12: in a container just loaded from a file, whenever the full byte range
\* of an occupied entry, offset + 8 + namelen + size, extends past the header
\* offset of the next entry in header-offset order, repack fails with the
\* overlapping-entries error.
C12_OverlapDetected ==
    (pc = "idle" /\ result.op = "open") =>
        ((\E i \in 1..(Len(old_entries) - 1) :
            old_entries[i].old_offset
                + entry_size(old_entries[i].size, old_entries[i].filename)
                > old_entries[i + 1].old_offset)
         => repack_run.status = "FTLDatError")

\* C13: a repack that fails with the overlapping-entries error has written
\* nothing: the file and the whole in-memory state are as before the call.
C13_FailedRepackWritesNothing ==
    [][(pc = "idle" /\ result'.op = "repack"
            /\ result'.status = "FTLDatError") =>
          /\ f' = f
          /\ written' = {}
          /\ UNCHANGED <<index, index_free, metadata, filenames, eof>>]_vars

\* C13 witness: repack has refused a loaded container of two entries whose
\* new layout differs from the old one.
C13_Witness ==
    /\ pc = "idle"
    /\ result.op = "repack"
    /\ result.status = "FTLDatError"
    /\ Cardinality(list) = 2
    /\ \E i \in 1..Len(new_entries) :
          new_entries[i].new_offset # new_entries[i].old_offset

\* C15: opening a file in which two occupied slots point to headers that
\* carry the same name fails with the corrupt-index error; opening a file
\* whose occupied slots carry pairwise distinct names succeeds and registers
\* every one of them under its slot.
C15_LoadRejectsDuplicates ==
    [][pc = "closed" =>
          LET index_size == unpack(read(f, 0, 4))
              slot(n) == unpack(read(f, 4 + 4 * n, 4))
              name(n) == read(f, slot(n) + 8, unpack(read(f, slot(n) + 4, 4)))
              occupied == { n \in 0..(index_size - 1) : slot(n) # 0 }
              repeated == \E m, n \in occupied : m # n /\ name(m) = name(n)
          IN  /\ repeated =>
                    /\ pc' = "failed"
                    /\ result'.status = "FTLDatError"
              /\ ~repeated =>
                    /\ pc' = "idle"
                    /\ result'.status = "ok"
                    /\ list' = { name(n) : n \in occupied }
                    /\ \A n \in occupied :
                          /\ filenames'[name(n)] = n
                          /\ index'[n + 1] = slot(n)
                          /\ metadata'[n + 1].filename = name(n)]_vars

\* C15 witness: the load of a file whose two slots point to different
\* headers with the same name has failed.
C15_Witness ==
    /\ pc = "failed"
    /\ result.status = "FTLDatError"
    /\ Len(index) = 2
    /\ index[1] # 0
    /\ index[2] # 0
    /\ index[1] # index[2]

\* C18: during index growth the only entries relocated are ones whose header
\* offset was the smallest among the occupied slots when they were moved;
\* every other live entry keeps its slot, header offset, metadata, on-disk
\* pointer and bytes, every name keeps its slot, and the zero-filled new slot
\* words lie before every live entry.
C18_GrowthFrame ==
    [][pc = "grow" =>
          LET relocated == { n \in index_used : index'[n + 1] # index[n + 1] }
              whole(m) == read(f, index[m + 1], full_size(m))
              fill == span(4 + 4 * Len(index),
                           4 * (Len(index') - Len(index)))
          IN  /\ \A n \in relocated : \A m \in index_used :
                    index[n + 1] <= index[m + 1]
              /\ \A m \in index_used \ relocated :
                    /\ metadata'[m + 1] = metadata[m + 1]
                    /\ read(f', 4 + 4 * m, 4) = read(f, 4 + 4 * m, 4)
                    /\ read(f', index[m + 1], Len(whole(m))) = whole(m)
              /\ \A n \in relocated :
                    /\ unpack(read(f', 4 + 4 * n, 4)) = index'[n + 1]
                    /\ read(f', index'[n + 1], Len(whole(n))) = whole(n)
              /\ filenames' = filenames
              /\ \A m \in index_used :
                    fill \cap span(index'[m + 1], full_size(m)) = {}]_vars

\* C18 witness: growth has ended in a container of two live entries, one of
\* which was relocated by it.
C18_Witness ==
    /\ pc = "grown"
    /\ Cardinality(index_used) = 2
    /\ \E n \in index_used : index[n + 1] \in written

\* C19: in a container just loaded from a file the free-slot stack holds the
\* free slots in descending order, and an add then claims the lowest free
\* slot.
C19_LoadAllocatesAscending ==
    [][(pc = "idle" /\ result.op = "open") =>
          /\ \A i, j \in 1..Len(index_free) :
                i < j => index_free[i] > index_free[j]
          /\ (result'.op = "add" /\ result'.status = "ok"
                  /\ index_free # << >>) =>
                \A n \in 0..(Len(index) - 1) :
                    index[n + 1] = 0 => filenames'[result'.name] <= n]_vars

\* C14: an add that reaches its copy loop fails with the short-read error
\* exactly when the source ends before it has yielded size bytes; otherwise
\* add succeeds, the payload stored in the file is exactly the first size
\* bytes of the source and the source is left positioned after them; an add
\* of size 0 never reads the source.
C14_ShortRead ==
    [][(result'.op = "add" /\ result'.status \in {"ok", "ShortRead"}) =>
          LET n == filenames'[result'.name]
              size == metadata'[n + 1].size
          IN  /\ result'.status = "ShortRead" <=> source'.short
              /\ result'.status = "ok" =>
                    /\ Len(added'[result'.name]) = size
                    /\ read(f', metadata'[n + 1].offset, size)
                          = added'[result'.name]
                    /\ source'.pos = size
              /\ size = 0 => source'.reads = 0 /\ source'.pos = 0]_vars

\* C14 witness: an add of a declared size above the length of its source has
\* failed after the index was grown for it.
C14_Witness ==
    /\ pc = "idle"
    /\ result.op = "add"
    /\ result.status = "ShortRead"
    /\ source.short
    /\ source.pos > 0
    /\ Len(index) > MaxCap

\* C21: a successful add issued while the free-slot stack is not empty pops
\* the top slot, puts the new header at the old self.eof, advances self.eof
\* by exactly 8 + namelen + size and writes only the 4-byte pointer of that
\* slot and bytes at or after the old self.eof: the header word, every other
\* slot pointer and every byte of another live entry are left as they were.
C21_AddFrame ==
    [][(pc = "idle" /\ index_free # << >> /\ result'.op = "add"
            /\ result'.status = "ok") =>
          LET name == result'.name
              n == filenames'[name]
              size == metadata'[n + 1].size
              pointer == span(4 + 4 * n, 4)
          IN  /\ n = index_free[Len(index_free)]
              /\ index'[n + 1] = eof
              /\ eof' = eof + 8 + Len(name) + size
              /\ \A p \in written' : p \in pointer \/ p >= eof
              /\ \A p \in 0..(Len(f) - 1) :
                    (p \notin pointer /\ p < eof) => f'[p + 1] = f[p + 1]
              /\ read(f', 0, 4) = read(f, 0, 4)
              /\ \A m \in 0..(Len(index) - 1) :
                    m # n => read(f', 4 + 4 * m, 4) = read(f, 4 + 4 * m, 4)
              /\ \A m \in index_used :
                    /\ index'[m + 1] = index[m + 1]
                    /\ metadata'[m + 1] = metadata[m + 1]
                    /\ written' \cap span(index[m + 1], full_size(m)) = {}
                    /\ read(f', index[m + 1],
                            Len(read(f, index[m + 1], full_size(m))))
                          = read(f, index[m + 1], full_size(m))]_vars

\* C21 witness: an add of one byte has taken a free slot next to a live
\* entry and has written its pointer and its entry, nothing else.
C21_Witness ==
    /\ pc = "idle"
    /\ result.op = "add"
    /\ result.status = "ok"
    /\ source.pos = 1
    /\ Cardinality(index_used) = 2
    /\ LET n == filenames[result.name] IN
          written = span(4 + 4 * n, 4) \cup span(index[n + 1], full_size(n))

\* C22: after every call on a created container the full byte ranges
\* [offset, offset + 8 + namelen + size) of distinct live entries are
\* pairwise disjoint and end at or before self.eof, and repack does not fail
\* with the overlapping-entries error.
C22_RangesDisjoint ==
    pc = "idle" =>
        /\ \A m, n \in index_used :
              m # n => span(index[m + 1], full_size(m))
                          \cap span(index[n + 1], full_size(n)) = {}
        /\ \A n \in index_used : index[n + 1] + full_size(n) <= eof
        /\ repack_run.status # "FTLDatError"

\* C22 witness: two entries are live after an add that grew the index by
\* moving the other entry to the end of the file.
C22_Witness ==
    /\ pc = "idle"
    /\ result.op = "add"
    /\ result.status = "ok"
    /\ Cardinality(index_used) = 2
    /\ \E n \in index_used :
          /\ n # filenames[result.name]
          /\ span(index[n + 1], full_size(n)) \subseteq written

\* C24: after every call, index and metadata have the same length, the
\* free-slot stack holds without duplicates exactly the slots n with
\* index[n] = 0, the name map is a bijection between the live names and the
\* slots n with index[n] # 0, and for each of them metadata[n].filename is
\* that name and metadata[n].offset = index[n] + 8 + len(name).
C24_MemoryConsistent ==
    pc = "idle" =>
        /\ Len(metadata) = Len(index)
        /\ \A i, j \in 1..Len(index_free) :
              i # j => index_free[i] # index_free[j]
        /\ { index_free[i] : i \in 1..Len(index_free) }
              = { n \in 0..(Len(index) - 1) : index[n + 1] = 0 }
        /\ { filenames[x] : x \in DOMAIN filenames } = index_used
        /\ \A x, y \in DOMAIN filenames : x # y => filenames[x] # filenames[y]
        /\ \A x \in DOMAIN filenames :
              /\ metadata[filenames[x] + 1].filename = x
              /\ metadata[filenames[x] + 1].offset
                    = index[filenames[x] + 1] + 8 + Len(x)

\* C24 witness: a remove has left one live entry and two free slots in an
\* index that was grown.
C24_Witness ==
    /\ pc = "idle"
    /\ result.op = "remove"
    /\ result.status = "ok"
    /\ Len(index) > MaxCap
    /\ Len(index_free) >= 2
    /\ Cardinality(list) = 1

\* what _read_index would build from the file as it is now
reread ==
    IF Len(f) < 4 \/ Len(f) < 4 + 4 * unpack(read(f, 0, 4))
    THEN [status |-> "struct.error", index |-> << >>, metadata |-> << >>,
          filenames |-> EmptyMap]
    ELSE LET idx == [n \in DOMAIN table(f) |-> unpack(table(f)[n])]
             r == scan(f, idx, 0, << >>, nones(Len(idx)), EmptyMap)
         IN  [status |-> r.status, index |-> idx, metadata |-> r.metadata,
              filenames |-> r.filenames]

\* C25: after every completed call on a created container, reading the file
\* again from scratch yields the index_size, the slot table, the names with
\* their sizes and payload offsets, and so the payload bytes, that the
\* writer holds in memory.
C25_DiskAgrees ==
    pc = "idle" =>
        /\ reread.status = "ok"
        /\ reread.index = index
        /\ reread.filenames = filenames
        /\ \A n \in index_used : reread.metadata[n + 1] = metadata[n + 1]

\* C26: after an add that failed with the short-read error the name is not
\* live, no slot points at an entry for it, and self.eof is the length of
\* the file.
C26_FailedAddLeavesNoEntry ==
    (pc = "idle" /\ result.op = "add" /\ result.status = "ShortRead") =>
        /\ ~contains(result.name)
        /\ \A n \in index_used : metadata[n + 1].filename # result.name
        /\ eof = Len(f)

====
